---- MODULE Spec2Model ----
(***************************************************************************)
(* A model of the repository's two classes:                                *)
(*   - complex.Complex   (src/complex/complex.py)                          *)
(*   - htmlmerger.HtmlMerger (src/htmlmerger/htmlmerger.py)                *)
(*                                                                         *)
(* Numbers.  Python floats are modelled by exact arithmetic on the         *)
(* integers.  Angles are counted in QUARTER TURNS (1 = pi/2), the one unit *)
(* in which cos and sin of lattice angles are exact: cos and sin take the  *)
(* values 1, 0, -1, 0.  A Cartesian pair is on the lattice when it lies on *)
(* an axis (then sqrt(a^2 + b^2) and acos(a / r) are exact).  A float      *)
(* result that is not on the lattice is reported as the outcome "inexact"; *)
(* the actions take no input that produces it.                             *)
(***************************************************************************)
EXTENDS Integers, Sequences, FiniteSets, TLC

VARIABLES heap, last, fs, merger, mlast

vars == <<heap, last, fs, merger, mlast>>

(***************************************************************************)
(* Bounds of the model                                                     *)
(***************************************************************************)
MaxVal == 1
MaxMag == 2

Vals == (0 - MaxVal)..MaxVal

(***************************************************************************)
(* Python values                                                           *)
(***************************************************************************)
\* Python's None for a numeric argument or field: an integer outside every
\* range of the model, so that it compares with numbers as None does.
None == 0 - 1000000

Abs(x) == IF x < 0 THEN 0 - x ELSE x

IsSquare(n) == \E k \in 0..n : k * k = n

\* math.sqrt on perfect squares
Sqrt(n) == CHOOSE k \in 0..n : k * k = n

\* math.cos and math.sin of an angle in quarter turns
Cos(t) == LET m == t % 4 IN IF m = 0 THEN 1 ELSE IF m = 2 THEN 0 - 1 ELSE 0

Sin(t) == LET m == t % 4 IN IF m = 1 THEN 1 ELSE IF m = 3 THEN 0 - 1 ELSE 0

\* math.acos of 1, 0, -1, in quarter turns
Acos(x) == IF x = 1 THEN 0 ELSE IF x = 0 THEN 1 ELSE 2

\* Outcome of a call: the exception raised ("none" when it returns) and the
\* instance as the call leaves it.
Res(exc, obj) == [exc |-> exc, obj |-> obj]

Then(res, F(_)) == IF res.exc = "none" THEN F(res.obj) ELSE res

NewObj(a, b, r, theta) == [a |-> a, b |-> b, r |-> r, theta |-> theta]

(***************************************************************************)
(* Module functions of complex.py                                          *)
(***************************************************************************)
\* 1 / threshold of compatible_numbers
InvThreshold == 100000000

\* compatible_numbers(n1, n2): [exc, val]
compatible_numbers(n1, n2) ==
    IF n1 = n2 THEN [exc |-> "none", val |-> TRUE]
    ELSE IF n1 = 0 THEN [exc |-> "ZeroDivisionError", val |-> FALSE]
    ELSE IF Abs(n1 - n2) * InvThreshold < Abs(n1) THEN [exc |-> "none", val |-> TRUE]
    ELSE [exc |-> "none", val |-> FALSE]

RTheta(exc, r, theta) == [exc |-> exc, r |-> r, theta |-> theta]

\* The angle of r_theta_from_ab, for r = sqrt(a ** 2 + b ** 2)
theta_from_abr(a, b, r) ==
    IF r = 0 THEN RTheta("ZeroDivisionError", None, None)
    ELSE IF a # 0 /\ b # 0 THEN RTheta("inexact", None, None)
    ELSE IF b > 0 THEN RTheta("none", r, IF Abs(Acos(a \div r)) < 1 THEN 0 ELSE Acos(a \div r))
    ELSE RTheta("none", r, IF Abs(0 - Acos(a \div r)) < 1 THEN 0 ELSE 0 - Acos(a \div r))

\* r_theta_from_ab(a, b): [exc, r, theta]
r_theta_from_ab(a, b) ==
    IF a = None \/ b = None THEN RTheta("none", None, None)
    ELSE IF ~IsSquare(a * a + b * b) THEN RTheta("inexact", None, None)
    ELSE theta_from_abr(a, b, Sqrt(a * a + b * b))

\* The clamp of ab_from_r_theta: abs(v) < 1e-15 gives 0.0
Clamp(v) == IF Abs(v) < 1 THEN 0 ELSE v

\* ab_from_r_theta(r, theta): [a, b]; it never raises
ab_from_r_theta(r, theta) ==
    IF r = None \/ theta = None THEN [a |-> None, b |-> None]
    ELSE [a |-> Clamp(r * Cos(theta)), b |-> Clamp(r * Sin(theta))]

(***************************************************************************)
(* Complex: the property setters.  The getters a, b, r, theta return the   *)
(* stored value (they turn -0.0 into 0.0; the integers have one zero).     *)
(***************************************************************************)
\* self.__r, self.__theta = r_theta_from_ab(self.a, self.b)
StoreRTheta(self, rt) ==
    IF rt.exc # "none" THEN Res(rt.exc, self)
    ELSE Res("none", [self EXCEPT !.r = rt.r, !.theta = rt.theta])

\* self.__a, self.__b = ab_from_r_theta(self.r, self.theta)
StoreAB(self, ab) == Res("none", [self EXCEPT !.a = ab.a, !.b = ab.b])

\* a.setter
set_a(self, value) == StoreRTheta([self EXCEPT !.a = value], r_theta_from_ab(value, self.b))

\* b.setter
set_b(self, value) == StoreRTheta([self EXCEPT !.b = value], r_theta_from_ab(self.a, value))

\* r.setter
set_r(self, value) == StoreAB([self EXCEPT !.r = value], ab_from_r_theta(value, self.theta))

\* theta.setter
set_theta(self, value) == StoreAB([self EXCEPT !.theta = value], ab_from_r_theta(self.r, value))

PROTECTED_ATTRIBUTES == {"_Complex__a", "_Complex__b", "_Complex__r", "_Complex__theta"}

ATTRIBUTES == {"a", "b", "r", "theta"}

\* object.__setattr__ for a name of the instance: a property goes through
\* its setter, a storage field is written as it is
object_setattr(self, key, value) ==
    IF key = "a" THEN set_a(self, value)
    ELSE IF key = "b" THEN set_b(self, value)
    ELSE IF key = "r" THEN set_r(self, value)
    ELSE IF key = "theta" THEN set_theta(self, value)
    ELSE IF key = "_Complex__a" THEN Res("none", [self EXCEPT !.a = value])
    ELSE IF key = "_Complex__b" THEN Res("none", [self EXCEPT !.b = value])
    ELSE IF key = "_Complex__r" THEN Res("none", [self EXCEPT !.r = value])
    ELSE Res("none", [self EXCEPT !.theta = value])

\* Complex.__setattr__
setattr(self, key, value) ==
    IF key \notin ATTRIBUTES /\ key \notin PROTECTED_ATTRIBUTES
        THEN Res("ForbiddenAssignmentError", self)
    ELSE object_setattr(self, key, value)

(***************************************************************************)
(* Python strings: sequences of one-character strings                      *)
(***************************************************************************)
\* s.replace(c, "") for a one-character c
Remove(s, c) == SelectSeq(s, LAMBDA ch : ch # c)

\* p in s
Contains(s, p) == \E k \in 1..(Len(s) - Len(p) + 1) : SubSeq(s, k, k + Len(p) - 1) = p

\* s.find(p) + 1 when p in s
Find(s, p) ==
    CHOOSE k \in 1..(Len(s) - Len(p) + 1) :
        /\ SubSeq(s, k, k + Len(p) - 1) = p
        /\ \A j \in 1..(k - 1) : SubSeq(s, j, j + Len(p) - 1) # p

\* s.split(p)
RECURSIVE Split(_, _)
Split(s, p) ==
    IF ~Contains(s, p) THEN <<s>>
    ELSE <<SubSeq(s, 1, Find(s, p) - 1)>> \o Split(SubSeq(s, Find(s, p) + Len(p), Len(s)), p)

Digits == {"0", "1", "2", "3", "4", "5", "6", "7", "8", "9"}

DigitVal(c) ==
    CASE c = "0" -> 0 [] c = "1" -> 1 [] c = "2" -> 2 [] c = "3" -> 3 [] c = "4" -> 4
      [] c = "5" -> 5 [] c = "6" -> 6 [] c = "7" -> 7 [] c = "8" -> 8 [] c = "9" -> 9

RECURSIVE NatOf(_)
NatOf(ds) == IF ds = <<>> THEN 0 ELSE 10 * NatOf(SubSeq(ds, 1, Len(ds) - 1)) + DigitVal(ds[Len(ds)])

AllIn(s, S) == \A k \in 1..Len(s) : s[k] \in S

FloatVal(exc, val) == [exc |-> exc, val |-> val]

\* float of the digits ip before and fp after the point
FloatOfParts(ip, fp, neg) ==
    IF ~(AllIn(ip, Digits) /\ AllIn(fp, Digits) /\ Len(ip) + Len(fp) > 0)
        THEN FloatVal("ValueError", None)
    ELSE IF ~AllIn(fp, {"0"}) THEN FloatVal("inexact", None)
    ELSE FloatVal("none", IF neg THEN 0 - NatOf(ip) ELSE NatOf(ip))

\* float of an unsigned text, split at "."
FloatOfSplit(parts, neg) ==
    IF Len(parts) > 2 THEN FloatVal("ValueError", None)
    ELSE IF Len(parts) = 2 THEN FloatOfParts(parts[1], parts[2], neg)
    ELSE FloatOfParts(parts[1], <<>>, neg)

\* float(s) of a text "[+-]digits[.digits]": [exc, val].  Any other text
\* raises ValueError, as float does for every text the parser can pass that
\* is not a decimal numeral; a numeral with a non-zero fraction is off the
\* integer lattice ("inexact").
Float(s) ==
    IF Len(s) > 0 /\ s[1] \in {"+", "-"}
        THEN FloatOfSplit(Split(SubSeq(s, 2, Len(s)), <<".">>), s[1] = "-")
    ELSE FloatOfSplit(Split(s, <<".">>), FALSE)

\* self.<field> = f, for the outcome f of float(...): float is evaluated
\* before the setter runs
SetValue(self, Set(_, _), f) == IF f.exc # "none" THEN Res(f.exc, self) ELSE Set(self, f.val)

\* self.<field> = float(text)
SetFloat(self, Set(_, _), text) == SetValue(self, Set, Float(text))

\* self.<field> = float(parts[k]) with k counted from 1; a missing part is
\* Python's IndexError
SetFloatPart(self, Set(_, _), parts, k) ==
    IF k > Len(parts) THEN Res("IndexError", self) ELSE SetFloat(self, Set, parts[k])

(***************************************************************************)
(* Complex: construction                                                   *)
(***************************************************************************)
\* _guess_repr, the test of the given angle against the derived one
guess_repr_theta(self, c2) ==
    IF c2.exc # "none" THEN Res(c2.exc, self)
    ELSE IF ~c2.val THEN Res("ValueError", self)
    ELSE Res("none", self)

\* _guess_repr, the test of the given modulus against the derived one
guess_repr_r(self, rt, c1) ==
    IF c1.exc # "none" THEN Res(c1.exc, self)
    ELSE IF ~c1.val THEN Res("ValueError", self)
    ELSE guess_repr_theta(self, compatible_numbers(rt.theta, self.theta))

\* _guess_repr, the branch "if cartesian"
guess_repr_cartesian(self, rt, trigo) ==
    IF rt.exc # "none" THEN Res(rt.exc, self)
    ELSE IF trigo THEN guess_repr_r(self, rt, compatible_numbers(rt.r, self.r))
    ELSE Then(set_a(self, self.a), LAMBDA s1 : set_b(s1, s1.b))

\* Complex._guess_repr
guess_repr(self) ==
    IF ~(self.a # None /\ self.b # None) /\ ~(self.r # None /\ self.theta # None)
        THEN Res("ValueError", self)
    ELSE IF self.a # None /\ self.b # None
        THEN guess_repr_cartesian(self, r_theta_from_ab(self.a, self.b),
                                  self.r # None /\ self.theta # None)
    ELSE Then(set_r(self, self.r), LAMBDA s1 : set_theta(s1, s1.theta))

\* self.<x> = float(parts[0]); self.<y> = float(parts[1])
SetPair(self, SetX(_, _), SetY(_, _), parts) ==
    Then(SetFloatPart(self, SetX, parts, 1), LAMBDA s1 : SetFloatPart(s1, SetY, parts, 2))

\* _guess_repr_from_string, the branch of "e^" and "exp"; t is s without "i"
from_string_exp(self, t) ==
    IF Contains(t, <<"e", "^">>) THEN SetPair(self, set_r, set_theta, Split(t, <<"e", "^">>))
    ELSE SetPair(self, set_r, set_theta, Split(t, <<"e", "x", "p">>))

\* _guess_repr_from_string, the branch of "cos" and "sin"
from_string_trig(self, ss) ==
    IF Contains(ss, <<"c", "o", "s">>)
        THEN SetPair(self, set_r, set_theta, Split(ss, <<"c", "o", "s">>))
    ELSE SetPair(self, set_r, set_theta, Split(ss, <<"s", "n">>))

\* _guess_repr_from_string, the Cartesian branch
from_string_cartesian(self, s) ==
    IF ~Contains(s, <<"+">>) THEN
        IF Contains(s, <<"i">>)
            THEN Then(set_a(self, 0), LAMBDA s1 : SetFloat(s1, set_b, Remove(s, "i")))
        ELSE Then(SetFloat(self, set_a, s), LAMBDA s1 : set_b(s1, 0))
    ELSE Then(SetFloatPart(self, set_a, Split(s, <<"+">>), 1),
              LAMBDA s1 : SetFloat(s1, set_b, Remove(Remove(Split(s, <<"+">>)[2], " "), "i")))

\* _guess_repr_from_string after the five replace calls
from_string_stripped(self, s) ==
    IF Contains(s, <<"e", "^">>) \/ Contains(s, <<"e", "x", "p">>)
        THEN from_string_exp(self, Remove(s, "i"))
    ELSE IF Contains(s, <<"c", "o", "s">>) \/ Contains(s, <<"s", "i", "n">>)
        THEN from_string_trig(self, Remove(Split(s, <<"+">>)[1], "i"))
    ELSE from_string_cartesian(self, s)

\* Complex._guess_repr_from_string
guess_repr_from_string(self, s) ==
    from_string_stripped(self, Remove(Remove(Remove(Remove(Remove(s, "("), ")"), "*"), "x"), " "))

RECURSIVE NumeralOf(_)
\* The numeral of a natural number
NumeralOf(n) ==
    IF n < 10 THEN <<CHOOSE c \in Digits : DigitVal(c) = n>>
    ELSE NumeralOf(n \div 10) \o <<CHOOSE c \in Digits : DigitVal(c) = n % 10>>

\* str(x) of a float x, as an f-string renders it: "-1.0"
FormatFloat(x) == (IF x < 0 THEN <<"-">> ELSE <<>>) \o NumeralOf(Abs(x)) \o <<".", "0">>

Text(exc, text) == [exc |-> exc, text |-> text]

\* to_repr, the Cartesian rendering for the sign bsign
to_repr_cartesian(self, bsign) ==
    FormatFloat(self.a) \o <<" ", bsign, " ">> \o FormatFloat(Abs(self.b)) \o <<" ", "*", " ", "i">>

\* Complex.to_repr: [exc, text]
to_repr(self, repres) ==
    IF repres = "cartesian"
        THEN Text("none", to_repr_cartesian(self, IF self.b > 0 THEN "+" ELSE "-"))
    ELSE IF repres = "trigo"
        THEN Text("none", FormatFloat(self.r) \o <<" ", "*", " ", "(", "c", "o", "s", "(">>
                          \o FormatFloat(self.theta)
                          \o <<")", " ", "+", " ", "i", " ", "*", " ", "s", "i", "n", "(">>
                          \o FormatFloat(self.theta) \o <<")", ")">>)
    ELSE IF repres = "exp"
        THEN Text("none", FormatFloat(self.r) \o <<" ", "*", " ", "e", " ", "*", "*", " ", "(">>
                          \o FormatFloat(self.theta) \o <<" ", "*", " ", "i", ")">>)
    ELSE Text("ValueError", <<>>)

\* Arguments and operands: a number, None, an instance, or a text
Num(v) == [kind |-> "num", v |-> v]
NoneArg == [kind |-> "none"]
Cx(obj) == [kind |-> "cx", obj |-> obj]
Str(s) == [kind |-> "str", s |-> s]

ValOf(x) == IF x.kind = "num" THEN x.v ELSE None

\* Complex.__init__ from "if r is not None and r < 0" on
init_fields(self, s, z) ==
    IF self.r # None /\ self.r < 0 THEN Res("ValueError", self)
    ELSE IF z.kind = "cx" THEN
        Then(set_a(self, z.obj.a), LAMBDA s1 :
        Then(set_b(s1, z.obj.b), LAMBDA s2 :
        Then(set_r(s2, z.obj.r), LAMBDA s3 : set_theta(s3, z.obj.theta))))
    ELSE IF s.kind = "str" /\ s.s # <<>> THEN guess_repr_from_string(self, s.s)
    ELSE guess_repr(self)

\* Complex.__init__(a, b, r, theta, s, z).  a is a number, None or an
\* instance; b, r, theta are numbers or None; s is a text or None; z is an
\* instance or None.
ComplexInit(a, b, r, theta, s, z) ==
    IF a.kind = "cx" THEN init_fields(NewObj(None, None, None, None), s, a)
    ELSE init_fields(NewObj(ValOf(a), ValOf(b), ValOf(r), ValOf(theta)), s, z)

\* Complex(a, b), Complex(r=r, theta=theta), Complex(z), Complex(s=text)
FromAB(a, b) == ComplexInit(Num(a), Num(b), NoneArg, NoneArg, NoneArg, NoneArg)

FromPolar(r, theta) == ComplexInit(NoneArg, NoneArg, Num(r), Num(theta), NoneArg, NoneArg)

FromComplex(z) == ComplexInit(Cx(z), NoneArg, NoneArg, NoneArg, NoneArg, NoneArg)

FromString(s) == ComplexInit(NoneArg, NoneArg, NoneArg, NoneArg, Str(s), NoneArg)

(***************************************************************************)
(* Instances and references                                                *)
(*                                                                         *)
(* A heap h is a sequence of instances; an index into it is a reference.   *)
(* A method that works on instances returns an outcome [exc, h, id]: the   *)
(* exception raised ("none" when it returns), the heap as it leaves it and *)
(* the reference it returns (0 when it returns none).                      *)
(***************************************************************************)
Out(exc, h, id) == [exc |-> exc, h |-> h, id |-> id]

\* Complex(...): a new instance on the heap when __init__ returns; nothing
\* refers to the instance when it raises
Construct(h, res) ==
    IF res.exc = "none" THEN Out("none", Append(h, res.obj), Len(h) + 1)
    ELSE Out(res.exc, h, 0)

\* The heap after h[i].<field> = value, for the outcome res of the setter
Stored(h, i, res) == Out(res.exc, [h EXCEPT ![i] = res.obj], i)

\* h[i].<field> = value through the setter Set
Assign(h, i, Set(_, _), value) == Stored(h, i, Set(h[i], value))

AndThen(out, F(_)) == IF out.exc = "none" THEN F(out) ELSE out

Ref(j) == [kind |-> "ref", id |-> j]

\* The outcome of the coercion of an operand: [exc, h, o], o a number or a
\* reference
Coerced(c, other) ==
    [exc |-> c.exc, h |-> c.h, o |-> IF c.exc = "none" THEN Ref(c.id) ELSE other]

\* if isinstance(other, str): other = Complex(s=other)
Coerce(h, other) ==
    IF other.kind = "str" THEN Coerced(Construct(h, FromString(other.s)), other)
    ELSE [exc |-> "none", h |-> h, o |-> other]

(***************************************************************************)
(* Complex: comparison and arithmetic                                      *)
(***************************************************************************)
Bool(exc, ret) == [exc |-> exc, ret |-> ret]

\* __eq__ asking for both pairs to be equal, where one pair is enough
eq_coerced_both(c, i) ==
    IF c.exc # "none" THEN Bool(c.exc, FALSE)
    ELSE IF c.o.kind = "ref" THEN
        Bool("none", /\ c.h[i].a = c.h[c.o.id].a /\ c.h[i].b = c.h[c.o.id].b
                     /\ c.h[i].r = c.h[c.o.id].r /\ c.h[i].theta = c.h[c.o.id].theta)
    ELSE Bool("none", c.h[i].a = ValOf(c.o))

\* Complex.__eq__ from "if isinstance(other, Complex)" on
eq_coerced(c, i) ==
    IF c.exc # "none" THEN Bool(c.exc, FALSE)
    ELSE IF c.o.kind = "ref" THEN
        IF c.h[i].a = c.h[c.o.id].a /\ c.h[i].b = c.h[c.o.id].b THEN Bool("none", TRUE)
        ELSE IF c.h[i].r = c.h[c.o.id].r /\ c.h[i].theta = c.h[c.o.id].theta
            THEN Bool("none", TRUE)
        ELSE Bool("none", FALSE)
    ELSE IF c.h[i].a = ValOf(c.o) THEN Bool("none", TRUE)
    ELSE Bool("none", FALSE)

\* Complex.__eq__: [exc, ret]
eq(h, i, other) == eq_coerced(Coerce(h, other), i)

\* Complex.__ne__, for the outcome e of self.__eq__(other)
ne_of(e) == IF e.exc # "none" THEN e ELSE IF ~e.ret THEN Bool("none", TRUE) ELSE Bool("none", FALSE)

\* Complex.__ne__
ne(h, i, other) == ne_of(eq(h, i, other))

\* An ordering of instances by their moduli, which the class does not have
lt_by_modulus(h, i, other) ==
    IF other.kind = "ref" THEN Bool("none", h[i].r < h[other.id].r)
    ELSE IF other.kind = "num" THEN Bool("none", h[i].r < other.v)
    ELSE Bool("TypeError", FALSE)

\* Complex.__lt__: it raises whatever the operand is
lt(h, i, other) == Bool("ArithmeticError", FALSE)

\* Complex.__gt__
gt(h, i, other) == Bool("ArithmeticError", FALSE)

\* Complex.__le__
le(h, i, other) == Bool("ArithmeticError", FALSE)

\* Complex.__ge__
ge(h, i, other) == Bool("ArithmeticError", FALSE)

\* x / y on floats: [exc, val]
FDiv(x, y) ==
    IF y = 0 THEN FloatVal("ZeroDivisionError", None)
    ELSE IF Abs(x) % Abs(y) # 0 THEN FloatVal("inexact", None)
    ELSE FloatVal("none", (Abs(x) \div Abs(y)) * (IF (x < 0) = (y < 0) THEN 1 ELSE 0 - 1))

\* x ** n for a natural n
RECURSIVE Power(_, _)
Power(x, n) == IF n = 0 THEN 1 ELSE x * Power(x, n - 1)

\* new = self: the left operand itself, where the operators take a copy
NewCopyAlias(h, i) == Out("none", h, i)

\* new = Complex(self)
NewCopy(h, i) == Construct(h, FromComplex(h[i]))

\* __add__ from "if isinstance(other, Complex)" on
add_coerced(c, new) ==
    IF c.exc # "none" THEN Out(c.exc, c.h, 0)
    ELSE IF c.o.kind = "ref" THEN
        AndThen(Assign(c.h, new, set_a, c.h[new].a + c.h[c.o.id].a), LAMBDA n1 :
            Assign(n1.h, new, set_b, n1.h[new].b + n1.h[c.o.id].b))
    ELSE Assign(c.h, new, set_a, c.h[new].a + ValOf(c.o))

\* Complex.__add__
add(h, i, other) == AndThen(NewCopy(h, i), LAMBDA n : add_coerced(Coerce(n.h, other), n.id))

\* __sub__ from "if isinstance(other, Complex)" on
sub_coerced(c, new) ==
    IF c.exc # "none" THEN Out(c.exc, c.h, 0)
    ELSE IF c.o.kind = "ref" THEN
        AndThen(Assign(c.h, new, set_a, c.h[new].a - c.h[c.o.id].a), LAMBDA n1 :
            Assign(n1.h, new, set_b, n1.h[new].b - n1.h[c.o.id].b))
    ELSE Assign(c.h, new, set_a, c.h[new].a - ValOf(c.o))

\* Complex.__sub__
sub(h, i, other) == AndThen(NewCopy(h, i), LAMBDA n : sub_coerced(Coerce(n.h, other), n.id))

\* __mul__ from "if isinstance(other, Complex)" on
mul_coerced(c, new) ==
    IF c.exc # "none" THEN Out(c.exc, c.h, 0)
    ELSE IF c.o.kind = "ref" THEN
        AndThen(Assign(c.h, new, set_r, c.h[new].r * c.h[c.o.id].r), LAMBDA n1 :
            Assign(n1.h, new, set_theta, n1.h[new].theta + n1.h[c.o.id].theta))
    ELSE Assign(c.h, new, set_r, c.h[new].r * ValOf(c.o))

\* Complex.__mul__
mul(h, i, other) == AndThen(NewCopy(h, i), LAMBDA n : mul_coerced(Coerce(n.h, other), n.id))

\* new.r = new.r / other.r; new.theta = new.theta - other.theta, for the
\* quotient q
div_complex(h, new, q, j) ==
    IF q.exc # "none" THEN Out(q.exc, h, 0)
    ELSE AndThen(Assign(h, new, set_r, q.val), LAMBDA n1 :
             Assign(n1.h, new, set_theta, n1.h[new].theta - n1.h[j].theta))

\* new.r = new.r / other, for the quotient q
div_scalar(h, new, q) == IF q.exc # "none" THEN Out(q.exc, h, 0) ELSE Assign(h, new, set_r, q.val)

\* __truediv__ from "if isinstance(other, Complex)" on
truediv_coerced(c, new) ==
    IF c.exc # "none" THEN Out(c.exc, c.h, 0)
    ELSE IF c.o.kind = "ref"
        THEN div_complex(c.h, new, FDiv(c.h[new].r, c.h[c.o.id].r), c.o.id)
    ELSE div_scalar(c.h, new, FDiv(c.h[new].r, ValOf(c.o)))

\* Complex.__truediv__
truediv(h, i, other) ==
    AndThen(NewCopy(h, i), LAMBDA n : truediv_coerced(Coerce(n.h, other), n.id))

\* Complex.__pow__; when it returns NotImplemented the interpreter raises
\* TypeError.  A numeric exponent is a natural number here.
pow(h, i, other) ==
    AndThen(NewCopy(h, i), LAMBDA n :
        IF other.kind = "str" \/ other.kind = "ref" THEN Out("TypeError", n.h, 0)
        ELSE AndThen(Assign(n.h, n.id, set_r, Power(n.h[n.id].r, ValOf(other))), LAMBDA n1 :
                 Assign(n1.h, n.id, set_theta, n1.h[n.id].theta * ValOf(other))))

\* Complex.conjugate (a property, so repres is always "cartesian")
conjugate(h, i) == Construct(h, FromAB(h[i].a, 0 - h[i].b))

\* Complex.__radd__, __rsub__, __rmul__
radd(h, i, other) == add(h, i, other)

rsub(h, i, other) == sub(h, i, other)

rmul(h, i, other) == mul(h, i, other)

\* Complex.__rtruediv__: self.conjugate * other / self.mod ** 2
rtruediv(h, i, other) ==
    AndThen(conjugate(h, i), LAMBDA cj :
    AndThen(mul(cj.h, cj.id, other), LAMBDA m :
        truediv(m.h, m.id, Num(Power(m.h[i].r, 2)))))

\* Complex.__rpow__ returns NotImplemented
rpow(h, i, other) == Out("TypeError", h, 0)

\* Complex.__iadd__, __isub__, __imul__, __ipow__.  x /= y has no method of
\* its own in Python 3 (__idiv__ is never looked up): it runs __truediv__.
iadd(h, i, other) == add(h, i, other)

isub(h, i, other) == sub(h, i, other)

imul(h, i, other) == mul(h, i, other)

itruediv(h, i, other) == truediv(h, i, other)

ipow(h, i, other) == pow(h, i, other)

\* Complex.__copy__
copy(h, i) ==
    Construct(h, ComplexInit(NoneArg, NoneArg, NoneArg, NoneArg, NoneArg, Cx(h[i])))

\* copy.deepcopy(z) calls z.__deepcopy__(memo); __deepcopy__ is __copy__,
\* which takes no argument besides self
deepcopy(h, i) == Out("TypeError", h, 0)

(***************************************************************************)
(* A program run on Complex                                                *)
(*                                                                         *)
(* heap holds the instances the program refers to, last the call it made   *)
(* last ("idle" once the program has gone on).  The program makes a call,  *)
(* looks at the outcome, and goes on holding at most as many instances as  *)
(* it has variables.                                                       *)
(***************************************************************************)
ProgramVars == {"x", "y"}

Range == (0 - MaxMag)..MaxMag

InRange(obj) == obj.a \in Range /\ obj.b \in Range /\ obj.r \in Range /\ obj.theta \in Range

Ids == 1..Len(heap)

\* Texts given to the constructor
Texts ==
    { <<"1">>,
      <<"1", "i">>,
      <<"0", "+", "1", "i">>,
      <<"1", "+", "1", "i">>,
      <<"1", "e", "^", "1", "i">>,
      <<"1", "e", "x", "p", "1", "i">>,
      <<"-", "1", "e", "^", "0", "i">>,
      <<"1", "c", "o", "s", "(", "1", ")">>,
      <<"-", "1", "c", "o", "s", "(", "0", ")">>,
      <<"1", "i", "s", "i", "n", "(", "1", ")">>,
      <<"0">> }

\* Texts given as operands
OperandTexts ==
    { <<"1", "i">>,
      <<"-", "1", "e", "^", "0", "i">>,
      <<"1", "+", "i">> }

Scalars == {Num(v) : v \in Vals}

Operands == {Ref(j) : j \in Ids} \cup Scalars \cup {Str(s) : s \in OperandTexts}

Exponents == {Num(n) : n \in 0..MaxVal}

PowOperands == (Operands \ Scalars) \cup Exponents

NoArgs == [a |-> None, b |-> None, r |-> None, theta |-> None]

Call(op, i, other, args, exc, res, ret) ==
    [op |-> op, self |-> i, other |-> other, args |-> args, exc |-> exc, res |-> res, ret |-> ret]

Idle == Call("idle", 0, NoneArg, NoArgs, "none", 0, FALSE)

\* What the caller holds after a call: its own instances and the returned
\* one; the other instances the call made are garbage, and so is the
\* instance under way when the call raises
Visible(out) ==
    IF out.exc = "none" /\ out.id > Len(heap)
        THEN Append(SubSeq(out.h, 1, Len(heap)), out.h[out.id])
    ELSE SubSeq(out.h, 1, Len(heap))

ResId(out) ==
    IF out.exc # "none" THEN 0 ELSE IF out.id > Len(heap) THEN Len(heap) + 1 ELSE out.id

\* A call that returns an instance, or raises
Returns(op, i, other, args, out) ==
    /\ last.op = "idle"
    /\ out.exc # "inexact"
    /\ \A k \in 1..Len(Visible(out)) : InRange(Visible(out)[k])
    /\ heap' = Visible(out)
    /\ last' = Call(op, i, other, args, out.exc, ResId(out), FALSE)
    /\ UNCHANGED <<fs, merger, mlast>>

\* An assignment to a property: the instance is left as the setter leaves
\* it, also when the setter raises
Assigns(op, i, v, out) ==
    /\ last.op = "idle"
    /\ out.exc # "inexact"
    /\ \A k \in 1..Len(out.h) : InRange(out.h[k])
    /\ heap' = out.h
    /\ last' = Call(op, i, Num(v), NoArgs, out.exc, 0, FALSE)
    /\ UNCHANGED <<fs, merger, mlast>>

Attr(key, v) == [kind |-> "attr", key |-> key, v |-> v]

\* An assignment z.<key> = v written outside the class
AssignsAttr(i, key, v, out) ==
    /\ last.op = "idle"
    /\ out.exc # "inexact"
    /\ \A k \in 1..Len(out.h) : InRange(out.h[k])
    /\ heap' = out.h
    /\ last' = Call("setattr", i, Attr(key, v), NoArgs, out.exc, 0, FALSE)
    /\ UNCHANGED <<fs, merger, mlast>>

\* A comparison: it returns a boolean, or raises
Compares(op, i, other, res) ==
    /\ last.op = "idle"
    /\ heap' = heap
    /\ last' = Call(op, i, other, NoArgs, res.exc, 0, res.ret)
    /\ UNCHANGED <<fs, merger, mlast>>

RemoveAt(h, d) == SubSeq(h, 1, d - 1) \o SubSeq(h, d + 1, Len(h))

\* The calls whose result the program binds to a variable
Constructors == {"new", "new_s", "new_a", "new_z", "copy", "deepcopy"}

\* The program goes on.  It binds an instance it constructed to a variable
\* (letting go of an instance when it holds more than it has variables, or
\* rebinding a variable); it lets go of the value of any other expression.
Continue ==
    /\ last.op # "idle"
    /\ \/ /\ last.op \in Constructors
          /\ \E d \in 0..Len(heap) :
                /\ d = 0 => Len(heap) <= Cardinality(ProgramVars)
                /\ heap' = IF d = 0 THEN heap ELSE RemoveAt(heap, d)
       \/ /\ last.op \notin Constructors
          /\ heap' = IF last.res = 0 THEN heap ELSE RemoveAt(heap, last.res)
    /\ last' = Idle
    /\ UNCHANGED <<fs, merger, mlast>>

ArgVals == Vals \cup {None}

ArgOf(v) == IF v = None THEN NoneArg ELSE Num(v)

\* Complex(a, b, r, theta) with any of the four given, as the first
\* instance of the run
New ==
    /\ heap = <<>>
    /\ \E a \in ArgVals, b \in ArgVals, r \in ArgVals, theta \in ArgVals :
        Returns("new", 0, NoneArg, [a |-> a, b |-> b, r |-> r, theta |-> theta],
                Construct(heap, ComplexInit(ArgOf(a), ArgOf(b), ArgOf(r), ArgOf(theta),
                                            NoneArg, NoneArg)))

\* Complex(a, b)
NewAB ==
    \E a \in Vals, b \in Vals :
        Returns("new", 0, NoneArg, [NoArgs EXCEPT !.a = a, !.b = b], Construct(heap, FromAB(a, b)))

\* Complex(r=r, theta=theta)
NewPolar ==
    \E r \in Vals, theta \in Vals :
        Returns("new", 0, NoneArg, [NoArgs EXCEPT !.r = r, !.theta = theta],
                Construct(heap, FromPolar(r, theta)))

\* Complex(s=text)
NewFromString ==
    \E s \in Texts : Returns("new_s", 0, Str(s), NoArgs, Construct(heap, FromString(s)))

\* Complex(z), with r given or not
NewFromComplex ==
    \E i \in Ids, r \in ArgVals :
        Returns("new_a", 0, Ref(i), [NoArgs EXCEPT !.r = r],
                Construct(heap, ComplexInit(Cx(heap[i]), NoneArg, ArgOf(r), NoneArg,
                                            NoneArg, NoneArg)))

\* Complex(z=z), with r given or not
NewFromZ ==
    \E i \in Ids, r \in ArgVals :
        Returns("new_z", 0, Ref(i), [NoArgs EXCEPT !.r = r],
                Construct(heap, ComplexInit(NoneArg, NoneArg, ArgOf(r), NoneArg,
                                            NoneArg, Cx(heap[i]))))

Copy == \E i \in Ids : Returns("copy", i, NoneArg, NoArgs, copy(heap, i))

DeepCopy == \E i \in Ids : Returns("deepcopy", i, NoneArg, NoArgs, deepcopy(heap, i))

SetA == \E i \in Ids, v \in Vals : Assigns("set_a", i, v, Assign(heap, i, set_a, v))

SetB == \E i \in Ids, v \in Vals : Assigns("set_b", i, v, Assign(heap, i, set_b, v))

SetR == \E i \in Ids, v \in Vals : Assigns("set_r", i, v, Assign(heap, i, set_r, v))

SetTheta == \E i \in Ids, v \in Vals : Assigns("set_theta", i, v, Assign(heap, i, set_theta, v))

\* The names a program may write after the dot: the four properties, the
\* storage fields under their mangled names, and names the class has not
Keys == ATTRIBUTES \cup PROTECTED_ATTRIBUTES \cup {"__a", "__r", "q", "mod"}

SetAttr == \E i \in Ids, key \in Keys, v \in Vals :
    AssignsAttr(i, key, v, Stored(heap, i, setattr(heap[i], key, v)))

\* The names of the renderings, and one that to_repr does not know
Representations == {"cartesian", "trigo", "exp", "polar"}

Rendered(t, repres) == [kind |-> "str", s |-> t.text, repres |-> repres]

\* z.to_repr(repres)
ToRepr == \E i \in Ids, repres \in Representations :
    Compares("to_repr", i, Rendered(to_repr(heap[i], repres), repres),
             Bool(to_repr(heap[i], repres).exc, FALSE))

\* Complex(s=t.text) for the outcome t of to_repr
from_repr(h, t) == IF t.exc # "none" THEN Out(t.exc, h, 0) ELSE Construct(h, FromString(t.text))

\* Complex(s=z.to_repr(repres))
NewFromRepr == \E i \in Ids, repres \in Representations :
    Returns("new_repr", i, Rendered(to_repr(heap[i], repres), repres), NoArgs,
            from_repr(heap, to_repr(heap[i], repres)))

Eq == \E i \in Ids, o \in Operands : Compares("eq", i, o, eq(heap, i, o))

Ne == \E i \in Ids, o \in Operands : Compares("ne", i, o, ne(heap, i, o))

\* z < o, and o > z for an operand o that is no instance: the interpreter
\* finds no ordering on o's side and calls z.__lt__(o).  So for the others.
Ordered(op, reflected, i, o, swapped, res) ==
    /\ swapped => o.kind # "ref"
    /\ Compares(IF swapped THEN reflected ELSE op, i, o, res)

Lt == \E i \in Ids, o \in Operands, swapped \in BOOLEAN : Ordered("lt", "gt_swapped", i, o, swapped, lt(heap, i, o))

Gt == \E i \in Ids, o \in Operands, swapped \in BOOLEAN : Ordered("gt", "lt_swapped", i, o, swapped, gt(heap, i, o))

Le == \E i \in Ids, o \in Operands, swapped \in BOOLEAN : Ordered("le", "ge_swapped", i, o, swapped, le(heap, i, o))

Ge == \E i \in Ids, o \in Operands, swapped \in BOOLEAN : Ordered("ge", "le_swapped", i, o, swapped, ge(heap, i, o))

Add == \E i \in Ids, o \in Operands : Returns("add", i, o, NoArgs, add(heap, i, o))

Sub == \E i \in Ids, o \in Operands : Returns("sub", i, o, NoArgs, sub(heap, i, o))

Mul == \E i \in Ids, o \in Operands : Returns("mul", i, o, NoArgs, mul(heap, i, o))

TrueDiv == \E i \in Ids, o \in Operands : Returns("truediv", i, o, NoArgs, truediv(heap, i, o))

Pow == \E i \in Ids, o \in PowOperands : Returns("pow", i, o, NoArgs, pow(heap, i, o))

\* s + z, s - z, s * z, s / z, s ** z for a number s
RAdd == \E i \in Ids, o \in Scalars : Returns("radd", i, o, NoArgs, radd(heap, i, o))

RSub == \E i \in Ids, o \in Scalars : Returns("rsub", i, o, NoArgs, rsub(heap, i, o))

RMul == \E i \in Ids, o \in Scalars : Returns("rmul", i, o, NoArgs, rmul(heap, i, o))

RTrueDiv == \E i \in Ids, o \in Scalars : Returns("rtruediv", i, o, NoArgs, rtruediv(heap, i, o))

RPow == \E i \in Ids, o \in Scalars : Returns("rpow", i, o, NoArgs, rpow(heap, i, o))

\* z += o, z -= o, z *= o, z /= o, z **= o
IAdd == \E i \in Ids, o \in Operands : Returns("iadd", i, o, NoArgs, iadd(heap, i, o))

ISub == \E i \in Ids, o \in Operands : Returns("isub", i, o, NoArgs, isub(heap, i, o))

IMul == \E i \in Ids, o \in Operands : Returns("imul", i, o, NoArgs, imul(heap, i, o))

ITrueDiv == \E i \in Ids, o \in Operands : Returns("itruediv", i, o, NoArgs, itruediv(heap, i, o))

IPow == \E i \in Ids, o \in PowOperands : Returns("ipow", i, o, NoArgs, ipow(heap, i, o))

\* ------------------------------------------------------------ HtmlMerger
\* A path is the sequence of its components (<<>> is Path(""), whose string is
\* "."); a text is a sequence of tokens, the line feed being the token "\n" and
\* a tag such as "<html>" one token.  The file system fs maps the path of each
\* existing file to its text; the directories are fixed.

MaxFiles == 3
MaxCalls == 3

NL == "\n"

\* The directories that exist; <<>> is the current directory
Dirs == { <<>>, <<"d1">>, <<"d2">> }

\* Path.parent and Path.name
Parent(p) == IF p = <<>> THEN <<>> ELSE SubSeq(p, 1, Len(p) - 1)

Name(p) == IF p = <<>> THEN "" ELSE p[Len(p)]

\* Every file path the program meets, in the order sorting puts them
PathOrder ==
    << <<"d1", "a.html">>, <<"d1", "b.html">>, <<"d1", "merged.html">>,
       <<"d1", "notes.txt">>, <<"d2", "a.html">>, <<"merged.html">> >>

\* The names the pattern "*.html" matches
IsHtml(name) == name \in {"a.html", "b.html", "merged.html"}

\* sorted(directory.glob("*.html"))
Glob(fsys, dir) ==
    SelectSeq(PathOrder, LAMBDA p : p \in DOMAIN fsys /\ Parent(p) = dir /\ IsHtml(Name(p)))

\* str.splitlines(): the lines between line feeds, no empty last line
RECURSIVE splitlines(_)
splitlines(s) ==
    IF s = <<>> THEN <<>>
    ELSE IF ~Contains(s, <<NL>>) THEN <<s>>
    ELSE <<SubSeq(s, 1, Find(s, <<NL>>) - 1)>>
            \o splitlines(SubSeq(s, Find(s, <<NL>>) + 1, Len(s)))

startswith(line, tag) == Len(line) >= 1 /\ line[1] = tag

IsHeaderLine(line) ==
    startswith(line, "<html>") \/ startswith(line, "<body>") \/ startswith(line, "<head>")

IsTailLine(line) == startswith(line, "</body>") \/ startswith(line, "</html>")

\* acc = line if acc == "" else "\n".join([acc, line])
Joined(acc, line) == IF acc = <<>> THEN line ELSE acc \o <<NL>> \o line

\* The dict contents keeps its keys in insertion order
HasKey(contents, name) == \E k \in 1..Len(contents) : contents[k].name = name

PutLine(contents, name, line) ==
    IF HasKey(contents, name)
    THEN [k \in 1..Len(contents) |->
            IF contents[k].name = name
            THEN [name |-> name, text |-> contents[k].text \o <<NL>> \o line]
            ELSE contents[k]]
    ELSE Append(contents, [name |-> name, text |-> line])

\* One line of one file, in the loop of get_contents
AddLine(st, name, line) ==
    IF IsHeaderLine(line)
    THEN IF st.first THEN [st EXCEPT !.header = Joined(st.header, line)] ELSE st
    ELSE IF IsTailLine(line)
    THEN IF st.first THEN [st EXCEPT !.tail = Joined(st.tail, line)] ELSE st
    ELSE [st EXCEPT !.contents = PutLine(st.contents, name, line)]

RECURSIVE ReadLines(_, _, _)
ReadLines(st, name, lines) ==
    IF lines = <<>> THEN st
    ELSE ReadLines(AddLine(st, name, Head(lines)), name, Tail(lines))

\* The loop over self.files; reading a file that does not exist raises and
\* leaves what was gathered so far
RECURSIVE ReadFiles(_, _, _)
ReadFiles(st, files, fsys) ==
    IF files = <<>> THEN [exc |-> "none", st |-> st]
    ELSE IF Head(files) \notin DOMAIN fsys THEN [exc |-> "FileNotFoundError", st |-> st]
    ELSE ReadFiles([ReadLines(st, Name(Head(files)), splitlines(fsys[Head(files)]))
                        EXCEPT !.first = FALSE],
                   Tail(files), fsys)

Gathered(m, r) ==
    [exc |-> r.exc,
     m   |-> [m EXCEPT !.header = r.st.header, !.tail = r.st.tail,
                       !.contents = r.st.contents,
                       !.loaded = IF r.exc = "none" THEN TRUE ELSE m.loaded]]

get_contents(m, fsys) ==
    Gathered(m, ReadFiles([header |-> m.header, tail |-> m.tail,
                           contents |-> m.contents, first |-> TRUE],
                          m.files, fsys))

\* What merge writes: the header, each entry of contents, the tail
RECURSIVE WriteContents(_)
WriteContents(contents) ==
    IF contents = <<>> THEN <<>>
    ELSE Head(contents).text \o <<NL>> \o WriteContents(Tail(contents))

Written(m) == m.header \o <<NL>> \o WriteContents(m.contents) \o m.tail

WriteFile(fsys, p, text) ==
    [q \in DOMAIN fsys \cup {p} |-> IF q = p THEN text ELSE fsys[q]]

\* What a call has done to the files so far: the file system it leaves and
\* the log of its writes and removals, in the order they were made
World(fsys, log) == [fs |-> fsys, log |-> log]

Event(what, p) == [what |-> what, path |-> p]

\* The with block of merge: the output is opened, written and closed
write_output(m, w) ==
    World(WriteFile(w.fs, m.output_path, Written(m)), Append(w.log, Event("write", m.output_path)))

\* file.unlink(), for a file that is a file
unlink(w, p) ==
    IF p \in DOMAIN w.fs
        THEN World([q \in DOMAIN w.fs \ {p} |-> w.fs[q]], Append(w.log, Event("unlink", p)))
    ELSE w

RECURSIVE clean_from(_, _)
\* clean_files, from the file at the head of files on
clean_from(files, w) ==
    IF files = <<>> THEN w ELSE clean_from(Tail(files), unlink(w, Head(files)))

\* HtmlMerger.clean_files
clean_files(m, w) == clean_from(m.files, w)

MOut(exc, m, w, text) == [exc |-> exc, m |-> m, fs |-> w.fs, text |-> text, log |-> w.log]

NoText == <<"<nothing written>">>

\* merge with the removal of the inputs ahead of the write
merge_loaded_clean_first(g, fsys, clean) ==
    IF g.exc # "none" THEN MOut(g.exc, g.m, World(fsys, <<>>), NoText)
    ELSE IF g.m.output_path \in Dirs
        THEN MOut("IsADirectoryError", g.m, World(fsys, <<>>), NoText)
    ELSE MOut("none", g.m,
              IF clean
              THEN write_output(g.m, clean_files(g.m, World(fsys, <<>>)))
              ELSE write_output(g.m, World(fsys, <<>>)),
              Written(g.m))

\* merge once the contents are loaded: open(output_path, "w") fails on a directory
merge_loaded(g, fsys, clean) ==
    IF g.exc # "none" THEN MOut(g.exc, g.m, World(fsys, <<>>), NoText)
    ELSE IF g.m.output_path \in Dirs
        THEN MOut("IsADirectoryError", g.m, World(fsys, <<>>), NoText)
    ELSE MOut("none", g.m,
              IF clean
              THEN clean_files(g.m, write_output(g.m, World(fsys, <<>>)))
              ELSE write_output(g.m, World(fsys, <<>>)),
              Written(g.m))

\* HtmlMerger.merge
merge(m, fsys, clean) ==
    merge_loaded(IF m.loaded THEN [exc |-> "none", m |-> m] ELSE get_contents(m, fsys),
                 fsys, clean)

\* The arguments of HtmlMerger(files, input_directory, output_path)
NoFilesArg == [kind |-> "none", items |-> <<>>]

FileList(items) == [kind |-> "list", items |-> items]

FileGenerator(items) == [kind |-> "generator", items |-> items]

NoPathArg == [kind |-> "none", path |-> <<>>]

PathArg(p) == [kind |-> "path", path |-> p]

\* bool(files): a list is true when it has an item, a generator always
Truthy(files) == files.kind = "generator" \/ (files.kind = "list" /\ files.items # <<>>)

MRes(exc, m) == [exc |-> exc, m |-> m]

NewMerger(files, output_path) ==
    [files |-> files, output_path |-> output_path, header |-> <<>>, tail |-> <<>>,
     contents |-> <<>>, loaded |-> FALSE]

\* The end of check_args: the default of a None output, the check of its
\* directory, the output left out of the inputs
check_output(files, out) ==
    IF Parent(out) \notin Dirs THEN MRes("NotADirectoryError", NewMerger(files, out))
    ELSE MRes("none", NewMerger(SelectSeq(files, LAMBDA f : f # out), out))

check_args(files, input_directory, output_path, fsys) ==
    IF files.kind = "none" /\ input_directory.kind = "none"
    THEN MRes("AttributeError", NewMerger(<<>>, <<>>))
    ELSE IF input_directory.kind # "none" /\ Truthy(files)
    THEN MRes("ValueError", NewMerger(<<>>, <<>>))
    ELSE check_output(IF input_directory.kind # "none"
                      THEN Glob(fsys, input_directory.path) ELSE files.items,
                      IF output_path.kind = "none" THEN <<"merged.html">> ELSE output_path.path)

\* An argument the call leaves out
Omitted == [kind |-> "omitted", path |-> <<>>]

\* The default of output_path in the signature of __init__: Path("")
DefaultOutput == PathArg(<<>>)

\* HtmlMerger.__init__: [exc, m]
HtmlMergerInit(files, input_directory, output_path, fsys) ==
    check_args(files, input_directory,
               IF output_path.kind = "omitted" THEN DefaultOutput ELSE output_path, fsys)

\* ---- the program using an HtmlMerger

\* The texts a file can hold at the start, x being a line of its own
Document(x) == <<"<html>", NL, "<body>", NL, x, NL, "</body>", NL, "</html>", NL>>

Fragment(x) == <<"<head>", "t", NL, x, NL, NL, x, "2", NL, "</html>">>

Empty == <<"<html>", NL, "</html>">>

OwnLine(p) ==
    IF p = <<"d1", "a.html">> THEN "p" ELSE IF p = <<"d1", "b.html">> THEN "q" ELSE "r"

InputPaths == { <<"d1", "a.html">>, <<"d1", "b.html">>, <<"d2", "a.html">> }

TextsOf(p) == {Document(OwnLine(p)), Fragment(OwnLine(p)), Empty}

Notes == [p \in {<<"d1", "notes.txt">>} |-> <<"n">>]

InitialFS ==
    UNION { { [p \in S \cup DOMAIN Notes |-> IF p \in S THEN f[p] ELSE Notes[p]] :
                f \in {g \in [S -> UNION {TextsOf(p) : p \in InputPaths}] :
                         \A p \in S : g[p] \in TextsOf(p)} } :
            S \in SUBSET InputPaths }

\* Lists of distinct input paths
RECURSIVE ListsOf(_)
ListsOf(n) ==
    IF n = 0 THEN {<<>>}
    ELSE ListsOf(n - 1) \cup
         {Append(l, p) : l \in {l \in ListsOf(n - 1) : Len(l) = n - 1},
                         p \in InputPaths}

FileLists == {l \in ListsOf(MaxFiles) : \A j, k \in 1..Len(l) : j # k => l[j] # l[k]}

FilesArgs ==
    {NoFilesArg, FileGenerator(<<>>)} \cup {FileList(l) : l \in FileLists}

DirArgs == {NoPathArg, PathArg(<<"d1">>)}

OutputArgs ==
    {Omitted, NoPathArg, PathArg(<<"d1", "merged.html">>),
     PathArg(<<"nodir", "merged.html">>)}

InitArgs(files, input_directory, output_path) ==
    [files |-> files, input_directory |-> input_directory, output_path |-> output_path]

\* The last call on the merger: its outcome, the text and the log of what
\* it did to the files, how many calls the instance has had, and the
\* arguments the instance was constructed with
MCall(op, exc, text, calls, args, log) ==
    [op |-> op, exc |-> exc, text |-> text, calls |-> calls, args |-> args, log |-> log]

NotConstructed == MCall("start", "none", NoText, 0, InitArgs(NoFilesArg, NoPathArg, NoPathArg), <<>>)

\* merger = HtmlMerger(files, input_directory, output_path)
MInit ==
    /\ merger = <<>>
    /\ mlast.op = "start"
    /\ \E f \in FilesArgs, d \in DirArgs, o \in OutputArgs :
          /\ merger' = IF HtmlMergerInit(f, d, o, fs).exc = "none"
                       THEN <<HtmlMergerInit(f, d, o, fs).m>> ELSE <<>>
          /\ mlast' = MCall("init", HtmlMergerInit(f, d, o, fs).exc, NoText, 0, InitArgs(f, d, o), <<>>)
    /\ UNCHANGED <<fs, heap, last>>

\* merger.get_contents()
GetContents ==
    /\ merger # <<>>
    /\ mlast.calls < MaxCalls
    /\ merger' = <<get_contents(merger[1], fs).m>>
    /\ mlast' = MCall("get_contents", get_contents(merger[1], fs).exc, NoText, mlast.calls + 1,
                      mlast.args, <<>>)
    /\ UNCHANGED <<fs, heap, last>>

MergeCall(clean, out) ==
    /\ merger' = <<out.m>>
    /\ fs' = out.fs
    /\ mlast' = MCall(IF clean THEN "merge_clean" ELSE "merge", out.exc, out.text,
                      mlast.calls + 1, mlast.args, out.log)

\* merger.merge(clean)
Merge ==
    /\ merger # <<>>
    /\ mlast.calls < MaxCalls
    /\ \E clean \in BOOLEAN : MergeCall(clean, merge(merger[1], fs, clean))
    /\ UNCHANGED <<heap, last>>

InitComplex ==
    /\ heap = <<>>
    /\ last = Idle

\* No HtmlMerger yet, and any of the initial file systems
InitMerger ==
    /\ fs \in InitialFS
    /\ merger = <<>>
    /\ mlast = NotConstructed

\* A program of Complex numbers alone: it touches no file
Init ==
    /\ InitComplex
    /\ fs = Notes
    /\ merger = <<>>
    /\ mlast = NotConstructed

\* Construction, copies and the four setters
Next ==
    \/ New \/ NewFromString \/ NewFromComplex \/ NewFromZ \/ Copy \/ DeepCopy
    \/ SetA \/ SetB \/ SetR \/ SetTheta
    \/ Continue

Spec == Init /\ [][Next]_vars

\* The arithmetic operators on instances built from either pair
NextArith ==
    \/ NewAB \/ NewPolar \/ SetR
    \/ Add \/ Sub \/ Mul \/ TrueDiv \/ Pow
    \/ RAdd \/ RSub \/ RMul \/ RTrueDiv \/ RPow
    \/ IAdd \/ ISub \/ IMul \/ ITrueDiv \/ IPow
    \/ Continue

SpecArith == Init /\ [][NextArith]_vars

\* == and != on instances in any state the setters can leave
NextEq ==
    \/ NewAB \/ NewPolar \/ SetA \/ SetB \/ SetR \/ SetTheta
    \/ Eq \/ Ne
    \/ Continue

SpecEq == Init /\ [][NextEq]_vars

\* The four orderings, with an instance on either side
NextOrder ==
    \/ NewAB \/ NewPolar
    \/ Lt \/ Gt \/ Le \/ Ge
    \/ Continue

SpecOrder == Init /\ [][NextOrder]_vars

\* Assignments to any name of one instance
NextAttr ==
    \/ New
    \/ SetAttr
    \/ Continue

SpecAttr == Init /\ [][NextAttr]_vars

\* Renderings of instances, and instances made of them
NextRepr ==
    \/ NewAB \/ NewPolar
    \/ ToRepr \/ NewFromRepr
    \/ Continue

SpecRepr == Init /\ [][NextRepr]_vars

\* The life of one HtmlMerger over a file system
NextMerger == MInit \/ GetContents \/ Merge

InitMergerProgram == InitComplex /\ InitMerger

SpecMerger == InitMergerProgram /\ [][NextMerger]_vars

(***************************************************************************)
(* Properties                                                              *)
(***************************************************************************)
\* The relative tolerance of the pairs: equal, or |x - y| / |x| < 1e-8
Agree(x, y) == x = y \/ (x # 0 /\ Abs(x - y) * InvThreshold < Abs(x))

\* The Cartesian pair and the polar pair of z describe the same point
SamePoint(z) ==
    \/ r_theta_from_ab(z.a, z.b) = RTheta("none", z.r, z.theta)
    \/ ab_from_r_theta(z.r, z.theta) = [a |-> z.a, b |-> z.b]
    \/ /\ r_theta_from_ab(z.a, z.b).exc = "none"
       /\ Agree(r_theta_from_ab(z.a, z.b).r, z.r)
       /\ Agree(r_theta_from_ab(z.a, z.b).theta, z.theta)

\* C1: between public operations, after construction and after any setter
\* assignment whether it returned or raised, the pair (a, b) and the pair
\* (r, theta) of every instance describe the same point.
C1_SamePointAlways == \A k \in 1..Len(heap) : SamePoint(heap[k])

\* C2: the modulus of every instance is non-negative, after construction,
\* after any setter assignment and for every instance an arithmetic operator
\* returns.
C2_ModulusNonNegative == \A k \in 1..Len(heap) : heap[k].r >= 0

\* The lines of a text that satisfy Keep, joined by line feeds
LinesOf(text, Keep(_)) ==
    LET RECURSIVE JoinAll(_)
        JoinAll(ls) == IF ls = <<>> THEN <<>>
                       ELSE IF Len(ls) = 1 THEN ls[1]
                       ELSE ls[1] \o <<NL>> \o JoinAll(Tail(ls))
    IN JoinAll(SelectSeq(splitlines(text), Keep))

IsBodyLine(line) == ~IsHeaderLine(line) /\ ~IsTailLine(line)

HasBody(text) == SelectSeq(splitlines(text), IsBodyLine) # <<>>

\* One group per input file that has remaining lines, in the order of files
RECURSIVE GroupsInOrder(_, _)
GroupsInOrder(files, fsys) ==
    IF files = <<>> THEN <<>>
    ELSE (IF HasBody(fsys[Head(files)])
          THEN LinesOf(fsys[Head(files)], IsBodyLine) \o <<NL>> ELSE <<>>)
         \o GroupsInOrder(Tail(files), fsys)

\* The header lines of the first file, the groups, the trailer lines of the
\* first file
MergedInOrder(files, fsys) ==
    LinesOf(fsys[files[1]], IsHeaderLine) \o <<NL>> \o GroupsInOrder(files, fsys)
        \o LinesOf(fsys[files[1]], IsTailLine)

\* C3: the first merge() of an HtmlMerger writes the header lines of the
\* first input file, then one group of remaining lines per input file in the
\* order of the input list, then the trailer lines of the first input file,
\* whatever the directories of the input files.
C3_MergeWritesGroupsInOrder ==
    (/\ mlast.op = "merge"
     /\ mlast.exc = "none"
     /\ mlast.calls = 1
     /\ merger[1].files # <<>>)
    => mlast.text = MergedInOrder(merger[1].files, fs)

ArithOps ==
    {"add", "sub", "mul", "truediv", "pow", "radd", "rsub", "rmul", "rtruediv", "rpow",
     "iadd", "isub", "imul", "itruediv", "ipow"}

\* C4: a binary, reflected or compound-assignment operator leaves the four
\* fields of every instance the program holds, its operands among them, as
\* they were, and what it returns is an instance that did not exist before.
C4_OperandsUntouched ==
    [][last'.op \in ArithOps =>
          /\ Len(heap') >= Len(heap)
          /\ \A j \in 1..Len(heap) : heap'[j] = heap[j]
          /\ last'.exc = "none" => (last'.res = Len(heap) + 1 /\ Len(heap') = Len(heap) + 1)
          /\ last'.exc # "none" => (last'.res = 0 /\ Len(heap') = Len(heap))]_vars

\* An operator applied to one instance as both operands returned a new
\* instance holding other values
C4_Witness ==
    /\ last.op \in {"add", "iadd", "mul", "imul"}
    /\ last.exc = "none"
    /\ last.other = Ref(last.self)
    /\ last.res = Len(heap)
    /\ last.res # last.self
    /\ heap[last.res] # heap[last.self]

\* An instance any construction can give: consistent pairs, modulus >= 0
Valid(z) == SamePoint(z) /\ z.r >= 0

\* C5: x + y and x - y of valid instances, and x + s and x - s for a number
\* s, always return, and return the field-wise sum or difference of the
\* Cartesian pairs (a number counting for its real part alone).
C5_AddSubFieldwise ==
    (/\ last.op \in {"add", "sub"}
     /\ last.other.kind \in {"ref", "num"}
     /\ Valid(heap[last.self])
     /\ last.other.kind = "ref" => Valid(heap[last.other.id]))
    => /\ last.exc = "none"
       /\ heap[last.res].a =
            heap[last.self].a + (IF last.op = "add" THEN 1 ELSE 0 - 1)
                * (IF last.other.kind = "ref" THEN heap[last.other.id].a ELSE last.other.v)
       /\ heap[last.res].b =
            heap[last.self].b + (IF last.op = "add" THEN 1 ELSE 0 - 1)
                * (IF last.other.kind = "ref" THEN heap[last.other.id].b ELSE 0)

FourGiven(args) ==
    args.a # None /\ args.b # None /\ args.r # None /\ args.theta # None

\* (r, theta) agrees component-wise with the polar pair derived from (a, b)
Compatible(args) ==
    /\ r_theta_from_ab(args.a, args.b).exc = "none"
    /\ Agree(r_theta_from_ab(args.a, args.b).r, args.r)
    /\ Agree(r_theta_from_ab(args.a, args.b).theta, args.theta)

\* C6: Complex(a, b, r, theta) with all four given succeeds and holds the
\* given r and theta when (r, theta) is compatible with (a, b), and raises
\* ValueError, no other error, when it is not.
C6_FourArguments ==
    (last.op = "new" /\ FourGiven(last.args))
    => IF Compatible(last.args)
       THEN /\ last.exc = "none"
            /\ heap[last.res].r = last.args.r
            /\ heap[last.res].theta = last.args.theta
       ELSE last.exc = "ValueError"

\* A text in the exponential or the trig form whose modulus is negative
NegativeModulusText(s) ==
    /\ s # <<>>
    /\ s[1] = "-"
    /\ Contains(s, <<"e", "^">>) \/ Contains(s, <<"c", "o", "s">>)

\* C7: a construction given a negative modulus, by the keyword r or by a
\* text in the exponential or the trig form, raises ValueError and gives no
\* instance.
C7_NegativeModulusRejected ==
    (\/ /\ last.op \in {"new", "new_z"}
        /\ last.args.r # None
        /\ last.args.r < 0
     \/ /\ last.op = "new_s"
        /\ NegativeModulusText(last.other.s))
    => (last.exc = "ValueError" /\ last.res = 0)

CopyOps == {"new_a", "new_z", "copy", "deepcopy"}

SetterOps == {"set_a", "set_b", "set_r", "set_theta"}

\* The instance a copy is taken of
Source(call) == IF call.op \in {"copy", "deepcopy"} THEN call.self ELSE call.other.id

\* C8: Complex(z), Complex(z=z), copy(z) and deepcopy(z) of a valid z return
\* a new instance with the four fields of z, and an assignment through a
\* setter of one instance leaves every other instance as it was.
C8_CopiesEqualAndIndependent ==
    [][/\ (/\ last'.op \in CopyOps
           /\ last'.args.r = None
           /\ Valid(heap[Source(last')]))
          => (/\ last'.exc = "none"
              /\ last'.res = Len(heap) + 1
              /\ heap'[last'.res] = heap[Source(last')])
       /\ last'.op \in SetterOps
          => \A j \in 1..Len(heap) : j # last'.self => heap'[j] = heap[j]]_vars

PairsEqual(x, y) == (x.a = y.a /\ x.b = y.b) \/ (x.r = y.r /\ x.theta = y.theta)

\* x equals the operand o: an instance, a number, or a text that parses
EqualTo(x, o) ==
    IF o.kind = "ref" THEN PairsEqual(x, heap[o.id])
    ELSE IF o.kind = "num" THEN x.a = o.v
    ELSE PairsEqual(x, FromString(o.s).obj)

\* C9: == with an instance is true exactly when the Cartesian pairs or the
\* polar pairs are equal, with a number exactly when a equals it, with a text
\* as with the instance the text parses to (raising what the parse raises);
\* != returns the negation of ==.
C9_Equality ==
    last.op \in {"eq", "ne"}
    => IF last.other.kind = "str" /\ FromString(last.other.s).exc # "none"
       THEN last.exc = FromString(last.other.s).exc
       ELSE /\ last.exc = "none"
            /\ last.ret = IF last.op = "eq" THEN EqualTo(heap[last.self], last.other)
                          ELSE ~EqualTo(heap[last.self], last.other)

\* == was true of two instances whose Cartesian pairs differ
C9_Witness ==
    /\ last.op = "eq"
    /\ last.exc = "none"
    /\ last.other.kind = "ref"
    /\ last.ret
    /\ heap[last.self].a # heap[last.other.id].a \/ heap[last.self].b # heap[last.other.id].b

\* The instance an outcome returns
ResultOf(out) == out.h[out.id]

\* C10: for a number s on the left, s + z is z + s, s * z is z * s, and
\* s - z has a = s - z.a and b = -z.b.
C10_ReflectedOperandOrder ==
    (last.op \in {"radd", "rsub", "rmul"} /\ last.exc = "none")
    => IF last.op = "rsub"
       THEN /\ heap[last.res].a = last.other.v - heap[last.self].a
            /\ heap[last.res].b = 0 - heap[last.self].b
       ELSE IF last.op = "radd"
       THEN heap[last.res] =
                ResultOf(add(SubSeq(heap, 1, Len(heap) - 1), last.self, last.other))
       ELSE heap[last.res] =
                ResultOf(mul(SubSeq(heap, 1, Len(heap) - 1), last.self, last.other))

\* C11: z ** n and z **= n for a number n return a new instance with modulus
\* z.r ** n and angle z.theta * n; for an exponent that is an instance or a
\* text they raise TypeError (not ValueError); z is as it was in both cases.
C11_Power ==
    [][(/\ last'.op \in {"pow", "ipow"}
        /\ Valid(heap[last'.self]))
       => /\ heap'[last'.self] = heap[last'.self]
          /\ IF last'.other.kind = "num"
             THEN /\ last'.exc = "none"
                  /\ last'.res = Len(heap) + 1
                  /\ heap'[last'.res].r = Power(heap[last'.self].r, last'.other.v)
                  /\ heap'[last'.res].theta = heap[last'.self].theta * last'.other.v
             ELSE last'.exc = "TypeError"]_vars

OrderOps == {"lt", "gt", "le", "ge", "lt_swapped", "gt_swapped", "le_swapped", "ge_swapped"}

\* C12: each of <, >, <= and >= with an instance as either operand raises
\* ArithmeticError whatever the other operand is (an instance, a number, a
\* text); it returns no boolean and leaves the operands as they were.
C12_NoOrdering ==
    [][last'.op \in OrderOps
       => /\ last'.exc = "ArithmeticError"
          /\ heap' = heap]_vars

\* Two instances, and an ordering of one with the other, with a number and
\* with a text has been tried
C12_Witness ==
    /\ Len(heap) = 2
    /\ last.op \in OrderOps
    /\ last.other.kind = "str"
    /\ last.exc = "ArithmeticError"

\* C13: an assignment from outside the class to any name other than a, b, r
\* and theta raises ForbiddenAssignmentError and leaves the instance as it
\* was, the mangled names of the storage fields included.
C13_ClosedToAssignment ==
    [][(last'.op = "setattr" /\ last'.other.key \notin ATTRIBUTES)
       => /\ last'.exc = "ForbiddenAssignmentError"
          /\ heap' = heap]_vars

\* The two spellings of the mark of the exponential form
ExpMarks == { <<"e", "^">>, <<"e", "x", "p">> }

\* The text s is <r><mark><theta>i for two numerals r and theta
ExpShape(s, mark) ==
    /\ Contains(s, mark)
    /\ s[Len(s)] = "i"
    /\ Split(s, mark)[1] # <<>>
    /\ AllIn(Split(s, mark)[1], Digits)
    /\ Len(Split(s, mark)[2]) > 1
    /\ AllIn(Remove(Split(s, mark)[2], "i"), Digits)
    /\ Len(Remove(Split(s, mark)[2], "i")) = Len(Split(s, mark)[2]) - 1

\* C14: a text <r>e^<theta>i and a text <r>exp<theta>i both construct the
\* instance of modulus r and angle theta.
C14_BothSpellings ==
    \A mark \in ExpMarks :
        (last.op = "new_s" /\ ExpShape(last.other.s, mark))
        => /\ last.exc = "none"
           /\ last.res # 0
           /\ heap[last.res].r = NatOf(Split(last.other.s, mark)[1])
           /\ heap[last.res].theta = NatOf(Remove(Split(last.other.s, mark)[2], "i"))

\* C15: for a valid instance z and each of the renderings cartesian, trigo
\* and exp, Complex(s=z.to_repr(rendering)) is constructed and equals z.
C15_RoundTrip ==
    (/\ last.op = "new_repr"
     /\ last.other.repres \in {"cartesian", "trigo", "exp"}
     /\ Valid(heap[last.self]))
    => /\ last.exc = "none"
       /\ last.res # 0
       /\ eq(heap, last.res, Ref(last.self)) = Bool("none", TRUE)

Removals(log) == SelectSeq(log, LAMBDA e : e.what = "unlink")

\* C16: merge(clean=True) that succeeds writes the whole output first and
\* then removes every input file; a merge that raises, in the reading or in
\* the writing, removes none, and neither does merge(clean=False).
C16_CleanAfterWrite ==
    [][mlast'.op \in {"merge", "merge_clean"}
       => /\ (mlast'.op = "merge_clean" /\ mlast'.exc = "none")
             => /\ mlast'.log[1] = Event("write", merger'[1].output_path)
                /\ mlast'.text = Written(merger'[1])
                /\ \A k \in 2..Len(mlast'.log) : mlast'.log[k].what = "unlink"
                /\ \A k \in 1..Len(merger'[1].files) :
                      /\ merger'[1].files[k] \notin DOMAIN fs'
                      /\ merger'[1].files[k] \in DOMAIN fs
                         => \E e \in 1..Len(mlast'.log) :
                               mlast'.log[e] = Event("unlink", merger'[1].files[k])
          /\ (mlast'.op = "merge" \/ mlast'.exc # "none")
             => /\ Removals(mlast'.log) = <<>>
                /\ DOMAIN fs \subseteq DOMAIN fs']_vars

\* A merge(clean=True) has written the output and removed two input files
C16_Witness ==
    /\ mlast.op = "merge_clean"
    /\ mlast.exc = "none"
    /\ Len(Removals(mlast.log)) = 2
    /\ mlast.log[1].what = "write"

\* A merge(clean=True) raised while reading, and the input it had read is
\* still there
C16_WitnessFailure ==
    /\ mlast.op = "merge_clean"
    /\ mlast.exc # "none"
    /\ \E k \in 1..Len(merger[1].files) : merger[1].files[k] \in DOMAIN fs

MergeOps == {"merge", "merge_clean"}

\* C17: an instance constructed with no output path writes, when merge is
\* called on it and its inputs can be read, the file merged.html of the
\* current directory.
C17_DefaultOutput ==
    [][(/\ mlast'.op \in MergeOps
        /\ mlast'.args.output_path.kind \in {"omitted", "none"}
        /\ \A k \in 1..Len(merger[1].files) : merger[1].files[k] \in DOMAIN fs)
       => /\ mlast'.exc = "none"
          /\ mlast'.log[1] = Event("write", <<"merged.html">>)
          /\ <<"merged.html">> \in DOMAIN fs'
          /\ fs'[<<"merged.html">>] = mlast'.text]_vars

\* The output path an instance constructed with the argument o has
OutputOf(o) ==
    IF o.kind = "omitted" THEN <<>> ELSE IF o.kind = "none" THEN <<"merged.html">> ELSE o.path

\* C18: the constructor raises ValueError when given both files (a list of
\* any length, or a generator) and an input directory, AttributeError when
\* given neither, NotADirectoryError when the directory of the output is
\* missing; a constructor that raises has touched no file.
C18_ConstructorErrors ==
    [][mlast'.op = "init"
       => /\ (mlast'.args.files.kind # "none" /\ mlast'.args.input_directory.kind # "none")
             => mlast'.exc = "ValueError"
          /\ (mlast'.args.files.kind = "none" /\ mlast'.args.input_directory.kind = "none")
             => mlast'.exc = "AttributeError"
          /\ (/\ (mlast'.args.files.kind = "none") # (mlast'.args.input_directory.kind = "none")
              /\ Parent(OutputOf(mlast'.args.output_path)) \notin Dirs)
             => mlast'.exc = "NotADirectoryError"
          /\ mlast'.exc # "none" => (fs' = fs /\ mlast'.log = <<>> /\ merger' = <<>>)]_vars

\* What merge writes for a new instance of the same inputs
FirstMerge(m, fsys) == Written(get_contents(NewMerger(m.files, m.output_path), fsys).m)

\* C19: in any sequence of get_contents() and merge() on one instance whose
\* inputs stay as they are, every merge() writes the text the first merge
\* of these inputs writes: each header line, each trailer line and each
\* body once.
C19_MergeIdempotent ==
    [][(/\ mlast'.op \in MergeOps
        /\ mlast'.exc = "none"
        /\ \A k \in 1..Len(merger[1].files) : merger[1].files[k] \in DOMAIN fs)
       => mlast'.text = FirstMerge(merger[1], fs)]_vars

\* x == o is True
Equal(i, o) == eq(heap, i, o) = Bool("none", TRUE)

ValidIds == {i \in Ids : Valid(heap[i])}

\* C20: == on valid instances is an equivalence: x == y gives y == x,
\* x == y and y == z give x == z, and two instances equal to the same number
\* are equal to each other.
C20_EqualityIsEquivalence ==
    \A x \in ValidIds, y \in ValidIds :
        /\ Equal(x, Ref(y)) => Equal(y, Ref(x))
        /\ \A z \in ValidIds : (Equal(x, Ref(y)) /\ Equal(y, Ref(z))) => Equal(x, Ref(z))
        /\ \A n \in Scalars : (Equal(x, n) /\ Equal(y, n)) => Equal(x, Ref(y))

====
